---- MODULE Spec2Model ----
(***************************************************************************)
(* Model of the call-centre dashboard (src/dashboard.py): the metric       *)
(* extraction and aggregation helpers and the part of main() that selects  *)
(* the day columns and aggregates them, the sheet selection before it and  *)
(* the cards and charts after it.                                          *)
(*                                                                         *)
(* Text.  A string is a sequence of characters; a character is a short     *)
(* ASCII token.  The Cyrillic letters of the source are transliterated     *)
(* letter by letter and keep their case:                                   *)
(*   а a  б b  в v  г g  д d  е e  з z  и i  к k  л l  м m  н n  о o     *)
(*   п p  р r  с s  т t  у u  ф f  ч ch  ш sh  ы y  я ya  х h  щ sch       *)
(*   й j  ю yu  ь q                                                        *)
(* (upper case: A B V ... YA)                                              *)
(* so "ОТКАЗЫ" is <<"O","T","K","A","Z","Y">> and 'не' is <<"n","e">>.     *)
(*                                                                         *)
(* Numbers.  Cell values and period sums are integers; an average is a     *)
(* rational [num, den].  A missing number (NaN) is the empty sequence and  *)
(* a present number n is <<n>>.                                            *)
(***************************************************************************)
EXTENDS Integers, Sequences, FiniteSets, TLC

VARIABLES
    xl,                      \* the uploaded workbook: the names of its sheets
    sheet_names,             \* main: the names that start with "Отчет"
    selected_sheet,          \* main: the sheet chosen in the selectbox
    prev_sheet,              \* main: get_prev_sheet(selected_sheet)
    df_prev,                 \* main: the name of the sheet parsed as df_prev
    message,                 \* the st.error / st.warning that ended the render
    df,                      \* the parsed sheet (main: df = xl.parse(...))
    start_day, end_day,      \* the slider's day range
    selected_cols,           \* main: the columns handed to the helpers
    data_period,             \* process_data: the sheet cut to the period
    data_period_aggregated,  \* process_data: (label, period sum) rows
    pc,                      \* position of the render in main()
    ret                      \* the last helper call and what it returned

book == <<xl, sheet_names, selected_sheet, prev_sheet, df_prev>>

vars == <<book, message, df, start_day, end_day, selected_cols, data_period,
          data_period_aggregated, pc, ret>>

-----------------------------------------------------------------------------
(* Bounds of the model *)

MaxDays == 3          \* day columns of a generated sheet
MaxFindRows == 3      \* rows of a sheet of the label-lookup family
MaxReasons == 11      \* reason rows below the rejection header
MaxScan == 3          \* rows of a sheet of the section-boundary family
MaxTail == 2          \* rows past the fallback start index

-----------------------------------------------------------------------------
(* Characters and strings *)

UpperLetters == <<"A","B","V","G","D","E","Z","I","K","L","M","N","O","P","R",
                  "S","T","U","F","CH","SH","Y","YA","H","SCH","J","YU","Q">>
LowerLetters == <<"a","b","v","g","d","e","z","i","k","l","m","n","o","p","r",
                  "s","t","u","f","ch","sh","y","ya","h","sch","j","yu","q">>

IsUpperChar(c) == \E i \in 1..Len(UpperLetters) : UpperLetters[i] = c
IsLowerChar(c) == \E i \in 1..Len(LowerLetters) : LowerLetters[i] = c

\* str.lower() / str.upper() on one character
LowerChar(c) ==
    IF IsUpperChar(c)
    THEN LowerLetters[CHOOSE i \in 1..Len(UpperLetters) : UpperLetters[i] = c]
    ELSE c
UpperChar(c) ==
    IF IsLowerChar(c)
    THEN UpperLetters[CHOOSE i \in 1..Len(LowerLetters) : LowerLetters[i] = c]
    ELSE c

StrLower(s) == [i \in 1..Len(s) |-> LowerChar(s[i])]
StrUpper(s) == [i \in 1..Len(s) |-> UpperChar(s[i])]

\* str.isupper(): at least one cased character and no lower-case one
StrIsUpper(s) ==
    /\ \E i \in 1..Len(s) : IsUpperChar(s[i])
    /\ \A i \in 1..Len(s) : ~IsLowerChar(s[i])

\* `sub in s`
StrContains(s, sub) ==
    \E k \in 0..(Len(s) - Len(sub)) :
        \A j \in 1..Len(sub) : s[k + j] = sub[j]

\* str.strip(): leading and trailing blanks removed
RECURSIVE LStrip(_)
LStrip(s) == IF s # <<>> /\ Head(s) = " " THEN LStrip(Tail(s)) ELSE s
RECURSIVE RStrip(_)
RStrip(s) ==
    IF s # <<>> /\ s[Len(s)] = " " THEN RStrip(SubSeq(s, 1, Len(s) - 1)) ELSE s
StrStrip(s) == RStrip(LStrip(s))

\* a missing label (an empty spreadsheet cell in column 0)
NaN == <<"<NaN>">>

\* Python's None where a text is expected
None == <<"<None>">>

\* str.startswith
StartsWith(s, prefix) ==
    Len(s) >= Len(prefix) /\ SubSeq(s, 1, Len(prefix)) = prefix

\* str.replace(old, new): every occurrence of old, from the left, old not empty
RECURSIVE StrReplace(_, _, _)
StrReplace(s, old, new) ==
    IF Len(s) < Len(old) THEN s
    ELSE IF SubSeq(s, 1, Len(old)) = old
    THEN new \o StrReplace(SubSeq(s, Len(old) + 1, Len(s)), old, new)
    ELSE <<Head(s)>> \o StrReplace(Tail(s), old, new)

-----------------------------------------------------------------------------
(* get_prev_sheet *)

months ==
    << <<"YA","n","v","a","r","q">>,               \* "Январь"
       <<"F","e","v","r","a","l","q">>,            \* "Февраль"
       <<"M","a","r","t">>,                        \* "Март"
       <<"A","p","r","e","l","q">>,                \* "Апрель"
       <<"M","a","j">>,                            \* "Май"
       <<"I","yu","n","q">>,                       \* "Июнь"
       <<"I","yu","l","q">>,                       \* "Июль"
       <<"A","v","g","u","s","t">>,                \* "Август"
       <<"S","e","n","t","ya","b","r","q">>,       \* "Сентябрь"
       <<"O","k","t","ya","b","r","q">>,           \* "Октябрь"
       <<"N","o","ya","b","r","q">>,               \* "Ноябрь"
       <<"D","e","k","a","b","r","q">> >>          \* "Декабрь"

\* bug: months[i - 1] also for the first month, without the wrap
PrevMonthNoWrap(i) == months[IF i > 1 THEN i - 1 ELSE 1]

\* line 73: months[i - 1] if i > 0 else months[-1], positions from 1
PrevMonth(i) == IF i > 1 THEN months[i - 1] ELSE months[Len(months)]

get_prev_sheet(sheet_name) ==
    IF \E i \in 1..Len(months) : StrContains(sheet_name, months[i])
    THEN LET i == CHOOSE k \in 1..Len(months) :
                      /\ StrContains(sheet_name, months[k])
                      /\ \A j \in 1..(k - 1) : ~StrContains(sheet_name, months[j])
         IN  StrReplace(sheet_name, months[i], PrevMonth(i))
    ELSE None

\* line 594: the names of the workbook that start with "Отчет"
ReportPrefix == <<"O","t","ch","e","t">>
QualifyingNames(names) ==
    SelectSeq(names, LAMBDA name : StartsWith(name, ReportPrefix))

Report(month) == ReportPrefix \o <<" ">> \o month
DefaultBook == <<Report(months[5])>>              \* one sheet, "Отчет Май"

\* lines 603-607: df_prev is parsed when prev_sheet is a non-empty name of
\* sheet_names
PrevLoaded(prev, names) ==
    IF prev # None /\ prev # <<>> /\ \E k \in 1..Len(names) : names[k] = prev
    THEN prev ELSE None

-----------------------------------------------------------------------------
(* Regular expressions: Series.str.contains(pat, na=False, case=False)     *)
(* compiles pat with re.IGNORECASE and searches each label.  The patterns  *)
(* of the model use literal characters, ".", "(" ")" groups and "\" before *)
(* a character; a pattern that does not compile raises re.error.           *)

\* re.compile: [ok, atoms]; the atoms are <<"lit", c>> or <<"any">>, and ok is
\* FALSE where re.compile raises re.error (unbalanced parenthesis, trailing "\")
RECURSIVE Compile(_, _, _, _)
Compile(pat, i, depth, acc) ==
    IF i > Len(pat)
    THEN [ok |-> depth = 0, atoms |-> acc]
    ELSE CASE pat[i] = "\\" ->
                  IF i = Len(pat) THEN [ok |-> FALSE, atoms |-> acc]
                  ELSE Compile(pat, i + 2, depth,
                               Append(acc, <<"lit", pat[i + 1]>>))
           [] pat[i] = "(" -> Compile(pat, i + 1, depth + 1, acc)
           [] pat[i] = ")" ->
                  IF depth = 0 THEN [ok |-> FALSE, atoms |-> acc]
                  ELSE Compile(pat, i + 1, depth - 1, acc)
           [] pat[i] = "." -> Compile(pat, i + 1, depth, Append(acc, <<"any">>))
           [] OTHER -> Compile(pat, i + 1, depth, Append(acc, <<"lit", pat[i]>>))

ReCompile(pat) == Compile(pat, 1, 0, <<>>)

AtomMatches(atom, c) ==
    \/ atom[1] = "any"
    \/ atom[1] = "lit" /\ LowerChar(atom[2]) = LowerChar(c)

\* re.search of compiled atoms in text
ReSearch(atoms, text) ==
    \E k \in 0..(Len(text) - Len(atoms)) :
        \A j \in 1..Len(atoms) : AtomMatches(atoms[j], text[k + j])

\* bug: na=True, a missing label counts as a match
LabelMatchesNaTrue(label, atoms) == label = NaN \/ ReSearch(atoms, label)

\* one element of df['Показатель'].str.contains(pat, na=False, case=False)
LabelMatches(label, atoms) == label # NaN /\ ReSearch(atoms, label)

\* df['Показатель'].str raises AttributeError on a column that holds no string
StrAccessorFails(labels) == \A i \in 1..Len(labels) : labels[i] = NaN

\* the positions of the rows the boolean mask keeps, in table order
RECURSIVE MatchRows(_, _, _)
MatchRows(labels, atoms, i) ==
    IF i > Len(labels) THEN <<>>
    ELSE (IF LabelMatches(labels[i], atoms) THEN <<i>> ELSE <<>>)
         \o MatchRows(labels, atoms, i + 1)

-----------------------------------------------------------------------------
(* Cells and numbers *)

\* a cell is <<kind, n>>: "num" a number n, "pct" the string "n%",
\* "txt" a non-numeric string, "blank" the string "", "nan" an empty cell
NumCell(n) == <<"num", n>>
PctCell(n) == <<"pct", n>>
TxtCell == <<"txt", 0>>
BlankCell == <<"blank", 0>>
NanCell == <<"nan", 0>>

\* pd.to_numeric(cell, errors='coerce'): <<n>> or <<>> for NaN
ToNumeric(cell) == IF cell[1] = "num" THEN <<cell[2]>> ELSE <<>>

\* .fillna(0)
FillNa0(x) == IF x = <<>> THEN 0 ELSE x[1]

\* cell.astype(str).replace('%', ''), then pd.to_numeric(..., errors='coerce')
ToNumericCleaned(cell) ==
    IF cell[1] \in {"num", "pct"} THEN <<cell[2]>> ELSE <<>>

RECURSIVE SeqSum(_)
SeqSum(s) == IF s = <<>> THEN 0 ELSE Head(s) + SeqSum(Tail(s))

RECURSIVE SeqMax(_)
SeqMax(s) ==
    IF Len(s) = 1 THEN s[1]
    ELSE IF Head(s) >= SeqMax(Tail(s)) THEN Head(s) ELSE SeqMax(Tail(s))

-----------------------------------------------------------------------------
(* Column headers and frames *)

\* A column header is a value of the parsed sheet: a Timestamp
\* <<"ts", year, month, day>>, a string <<"str", text>> or an integer
\* <<"int", n>>.  The headers of a parsed sheet are pairwise different.
Digits == <<"0","1","2","3","4","5","6","7","8","9">>
IsDigit(c) == \E i \in 1..10 : Digits[i] = c
DigitValue(c) == (CHOOSE i \in 1..10 : Digits[i] = c) - 1

\* '%02d' and '%04d'
TwoDigits(n) == <<Digits[((n \div 10) % 10) + 1], Digits[(n % 10) + 1]>>
FourDigits(n) == TwoDigits(n \div 100) \o TwoDigits(n % 100)

\* str(n) of an integer 0 <= n < 100
IntStr(n) == IF n < 10 THEN <<Digits[n + 1]>> ELSE TwoDigits(n)

\* Timestamp.strftime('%Y-%m-%d')
Strftime(year, month, day) ==
    FourDigits(year) \o <<"-">> \o TwoDigits(month) \o <<"-">> \o TwoDigits(day)

DaysInMonth(year, month) ==
    IF month = 2
    THEN (IF year % 4 = 0 /\ (year % 100 # 0 \/ year % 400 = 0) THEN 29 ELSE 28)
    ELSE IF month \in {4, 6, 9, 11} THEN 30 ELSE 31

\* pd.to_datetime(text, errors='coerce') on the texts of the model: the text
\* 'YYYY-MM-DD' of a calendar date parses, any other text gives NaT (ok FALSE)
ToDatetime(text) ==
    LET shaped == /\ Len(text) = 10
                  /\ text[5] = "-" /\ text[8] = "-"
                  /\ \A i \in {1, 2, 3, 4, 6, 7, 9, 10} : IsDigit(text[i])
        year == 1000 * DigitValue(text[1]) + 100 * DigitValue(text[2])
                + 10 * DigitValue(text[3]) + DigitValue(text[4])
        month == 10 * DigitValue(text[6]) + DigitValue(text[7])
        day == 10 * DigitValue(text[9]) + DigitValue(text[10])
    IN  IF shaped /\ year >= 1 /\ month \in 1..12
           /\ day \in 1..DaysInMonth(year, month)
        THEN [ok |-> TRUE, year |-> year, month |-> month, day |-> day]
        ELSE [ok |-> FALSE, year |-> 0, month |-> 0, day |-> 0]

\* the headers of the sheets: day d of the report month January 2025 as a
\* date cell, as the text '2025-01-dd', as the text 'день d', as the number d
TsHeader(d) == <<"ts", 2025, 1, d>>
IsoHeader(d) == <<"str", Strftime(2025, 1, d)>>
TxtHeader(d) == <<"str", <<"d","e","n","q"," ">> \o IntStr(d)>>
IntHeader(d) == <<"int", d>>

\* bug: a Timestamp returned as str(col), '2025-01-01 00:00:00'
NormalizeDateAsStr(col) ==
    CASE col[1] = "ts" ->
             Strftime(col[2], col[3], col[4])
             \o <<" ","0","0",":","0","0",":","0","0">>
      [] col[1] = "str" ->
             LET dt == ToDatetime(col[2])
             IN  IF dt.ok THEN Strftime(dt.year, dt.month, dt.day) ELSE col[2]
      [] OTHER -> IntStr(col[2])

\* normalize_date: a Timestamp is formatted as '%Y-%m-%d', a string that
\* parses as a date is parsed and formatted alike, anything else is str(col);
\* the result is a text
normalize_date(col) ==
    CASE col[1] = "ts" -> Strftime(col[2], col[3], col[4])
      [] col[1] = "str" ->
             LET dt == ToDatetime(col[2])
             IN  IF dt.ok THEN Strftime(dt.year, dt.month, dt.day) ELSE col[2]
      [] OTHER -> IntStr(col[2])

\* pd.DataFrame()
EmptyFrame ==
    [has_label |-> FALSE, columns |-> <<>>, labels |-> <<>>, rows |-> <<>>]
EmptyAggregated ==
    [has_label |-> FALSE, has_sum |-> FALSE, labels |-> <<>>, sums |-> <<>>]

\* DataFrame.empty: no rows or no columns
SheetEmpty(d) ==
    Len(d.labels) = 0 \/ (~d.has_label /\ Len(d.headers) = 0)
FrameEmpty(f) ==
    Len(f.labels) = 0 \/ (~f.has_label /\ Len(f.columns) = 0)
\* bug: the result of process_data is not tested for emptiness
AggregatedNotTested(a) == FALSE

AggregatedEmpty(a) ==
    Len(a.labels) = 0 \/ (~a.has_label /\ ~a.has_sum)

\* the positions of the columns of a frame that carry the name key
RECURSIVE Positions(_, _, _)
Positions(cols, key, i) ==
    IF i > Len(cols) THEN <<>>
    ELSE (IF cols[i] = key THEN <<i>> ELSE <<>>) \o Positions(cols, key, i + 1)

\* frame[keys]: a name missing from the frame raises KeyError
HasColumns(cols, keys) ==
    \A j \in 1..Len(keys) : Positions(cols, keys[j], 1) # <<>>

\* frame[keys]: for each requested name, every column that carries it
RECURSIVE SelectPositions(_, _, _)
SelectPositions(cols, keys, j) ==
    IF j > Len(keys) THEN <<>>
    ELSE Positions(cols, keys[j], 1) \o SelectPositions(cols, keys, j + 1)

TakeCells(row, positions) == [k \in 1..Len(positions) |-> row[positions[k]]]
TakeNames(cols, positions) == [k \in 1..Len(positions) |-> cols[positions[k]]]

-----------------------------------------------------------------------------
(* main: the columns of the selected period (lines 643-650) *)

\* col_mapping[key]: the last column whose header normalizes to key
ColMapping(headers, key) ==
    headers[CHOOSE i \in 1..Len(headers) :
                /\ normalize_date(headers[i]) = key
                /\ \A j \in (i + 1)..Len(headers) :
                       normalize_date(headers[j]) # key]

InColMapping(headers, key) ==
    \E i \in 1..Len(headers) : normalize_date(headers[i]) = key

RECURSIVE MapBack(_, _, _)
MapBack(headers, normalized, j) ==
    IF j > Len(normalized) THEN <<>>
    ELSE (IF InColMapping(headers, normalized[j])
          THEN <<ColMapping(headers, normalized[j])>> ELSE <<>>)
         \o MapBack(headers, normalized, j + 1)

SelectedCols(headers, s, e) ==
    LET day_cols == SubSeq(headers, s, e)
        normalized_day_cols ==
            [j \in 1..Len(day_cols) |-> normalize_date(day_cols[j])]
    IN  MapBack(headers, normalized_day_cols, 1)

-----------------------------------------------------------------------------
(* process_data *)

\* num_data.sum(axis=1) of one row: every selected cell through
\* pd.to_numeric(errors='coerce').fillna(0), then added up
RowSum(cells) == SeqSum([k \in 1..Len(cells) |-> FillNa0(ToNumeric(cells[k]))])

process_data(d, cols) ==
    IF SheetEmpty(d) \/ cols = <<>>
    THEN <<EmptyFrame, EmptyAggregated>>
    ELSE IF ~d.has_label \/ ~HasColumns(d.headers, cols)
    THEN <<EmptyFrame, EmptyAggregated>>          \* KeyError, caught
    ELSE
      LET first == SelectPositions(d.headers, cols, 1)
          period == [has_label |-> TRUE,
                     columns |-> TakeNames(d.headers, first),
                     labels |-> d.labels,
                     rows |-> [r \in 1..Len(d.labels) |->
                                  TakeCells(d.cells[r], first)]]
          again == SelectPositions(period.columns, cols, 1)
          aggregated ==
              [has_label |-> TRUE, has_sum |-> TRUE,
               labels |-> d.labels,
               sums |-> [r \in 1..Len(d.labels) |->
                            RowSum(TakeCells(period.rows[r], again))]]
      IN  <<period, aggregated>>

-----------------------------------------------------------------------------
(* find_metric_value *)

\* bug: .iloc[-1], the last matching row
LastMatchValue(a, atoms) ==
    LET match == MatchRows(a.labels, atoms, 1)
    IN  IF match # <<>> THEN a.sums[match[Len(match)]] ELSE 0

FirstMatchValue(a, atoms) ==
    LET match == MatchRows(a.labels, atoms, 1)
    IN  IF match # <<>> THEN a.sums[match[1]] ELSE 0

find_metric_value(a, metric_name_part) ==
    IF AggregatedEmpty(a) \/ ~a.has_label \/ ~a.has_sum
    THEN 0
    ELSE LET re == ReCompile(metric_name_part)
         IN  IF StrAccessorFails(a.labels) \/ ~re.ok
             THEN 0                                \* AttributeError / re.error, caught
             ELSE FirstMatchValue(a, re.atoms)

-----------------------------------------------------------------------------
(* get_daily_values *)

Zeros(n) == [k \in 1..n |-> 0]

DailyOfRow(f, r, cols) ==
    IF ~HasColumns(f.columns, cols)
    THEN Zeros(Len(cols))                         \* KeyError, caught
    ELSE LET values == TakeCells(f.rows[r], SelectPositions(f.columns, cols, 1))
         IN  [k \in 1..Len(values) |-> FillNa0(ToNumeric(values[k]))]

get_daily_values(f, metric_name_part, cols) ==
    IF FrameEmpty(f) \/ cols = <<>>
    THEN Zeros(Len(cols))
    ELSE LET re == ReCompile(metric_name_part)
         IN  IF ~f.has_label \/ StrAccessorFails(f.labels) \/ ~re.ok
             THEN Zeros(Len(cols))                \* the exception is caught
             ELSE LET match == MatchRows(f.labels, re.atoms, 1)
                  IN  IF match # <<>> THEN DailyOfRow(f, match[1], cols)
                      ELSE Zeros(Len(cols))

-----------------------------------------------------------------------------
(* find_metric_average_daily *)

\* a rational number num/den, den > 0
Rat(n, d) == [num |-> n, den |-> d]
RatEq(x, y) == x.num * y.den = y.num * x.den
RatLeq(x, y) == x.num * y.den <= y.num * x.den

Returned(x) == [raised |-> FALSE, value |-> x]
Raised == [raised |-> TRUE, value |-> Rat(0, 1)]

\* numeric_daily_values after .dropna(): the cells that are numbers
RECURSIVE DropNa(_)
DropNa(xs) ==
    IF xs = <<>> THEN <<>>
    ELSE (IF Head(xs) = <<>> THEN <<>> ELSE <<Head(xs)[1]>>) \o DropNa(Tail(xs))

\* bug: "or" for "and" in the heuristic
AverageOfEither(numeric_daily_values) ==
    IF numeric_daily_values = <<>>
    THEN Rat(0, 1)
    ELSE LET total == SeqSum(numeric_daily_values)
             count == Len(numeric_daily_values)
         IN  IF total > count \/ SeqMax(numeric_daily_values) > 100
             THEN Rat(total, count * 100)
             ELSE Rat(total, count)

\* the normalization heuristic of lines 138-145 on the cleaned numbers
AverageOf(numeric_daily_values) ==
    IF numeric_daily_values = <<>>
    THEN Rat(0, 1)
    ELSE LET total == SeqSum(numeric_daily_values)
             count == Len(numeric_daily_values)
         IN  IF total > count /\ SeqMax(numeric_daily_values) > 100
             THEN Rat(total, count * 100)
             ELSE Rat(total, count)

\* daily_values -> '%' removed -> pd.to_numeric(errors='coerce') -> dropna
CleanedNumbers(daily_values) ==
    DropNa([k \in 1..Len(daily_values) |-> ToNumericCleaned(daily_values[k])])

find_metric_average_daily(f, metric_name_part, columns_to_average) ==
    IF FrameEmpty(f) \/ columns_to_average = <<>>
    THEN Returned(Rat(0, 1))
    ELSE LET re == ReCompile(metric_name_part)
         IN  IF ~f.has_label \/ StrAccessorFails(f.labels) \/ ~re.ok
             THEN Raised            \* KeyError / AttributeError / re.error
             ELSE LET match == MatchRows(f.labels, re.atoms, 1)
                  IN  IF match = <<>> THEN Returned(Rat(0, 1))
                      ELSE IF ~HasColumns(f.columns, columns_to_average)
                      THEN Raised                  \* KeyError
                      ELSE Returned(AverageOf(CleanedNumbers(
                               TakeCells(f.rows[match[1]],
                                   SelectPositions(f.columns,
                                                   columns_to_average, 1)))))

-----------------------------------------------------------------------------
(* create_reasons_chart: the rejection section and the displayed reasons *)

OTKAZY == <<"O","T","K","A","Z","Y">>            \* "ОТКАЗЫ"

\* the allow-list of line 532
Keywords ==
    { <<"z","a","ya","v","k","u">>,               \* 'заявку'
      <<"k","u","p","i","l">>,                    \* 'купил'
      <<"a","v","t","o">>,                        \* 'авто'
      <<"n","e">>,                                \* 'не'
      <<"o","t","k","a","z">>,                    \* 'отказ'
      <<"o","sh","i","b","o","ch","n","o">>,      \* 'ошибочно'
      <<"t","e","l","e","f","o","n">>,            \* 'телефон'
      <<"b","e","z">> }                           \* 'без'

FallbackStart == 37
TopN == 10

\* line 509: the cell is not NaN and "ОТКАЗЫ" is in str(cell).upper()
IsRejectionHeader(label) == label # NaN /\ StrContains(StrUpper(label), OTKAZY)

\* lines 507-515: the row index (from 0) at which the scan starts
StartIndex(labels) ==
    IF \E i \in 1..Len(labels) : IsRejectionHeader(labels[i])
    THEN CHOOSE i \in 1..Len(labels) :
             /\ IsRejectionHeader(labels[i])
             /\ \A j \in 1..(i - 1) : ~IsRejectionHeader(labels[j])
    ELSE FallbackStart

\* line 525
IsBlankLabel(label) == label = NaN \/ StrStrip(label) = <<>>

\* bug: the allow-list is tested on the label as written, not lower-cased
IsNextSectionAsWritten(indicator_str) ==
    /\ StrIsUpper(indicator_str)
    /\ Len(indicator_str) > 3
    /\ ~\E keyword \in Keywords : StrContains(indicator_str, keyword)

\* lines 530-532
IsNextSection(indicator_str) ==
    /\ StrIsUpper(indicator_str)
    /\ Len(indicator_str) > 3
    /\ ~\E keyword \in Keywords : StrContains(StrLower(indicator_str), keyword)

\* lines 518-539: the loop from row index i (from 0); a collected reason is
\* [row, label, value], the row index kept beside the label the code appends
RECURSIVE ScanReasons(_, _, _, _)
ScanReasons(labels, a, i, acc) ==
    IF i >= Len(labels) THEN acc
    ELSE LET indicator_name == labels[i + 1]
         IN  IF IsBlankLabel(indicator_name)
             THEN ScanReasons(labels, a, i + 1, acc)
             ELSE LET indicator_str == StrStrip(indicator_name)
                      value == find_metric_value(a, indicator_str)
                  IN  IF IsNextSection(indicator_str) THEN acc
                      ELSE ScanReasons(labels, a, i + 1,
                               IF value > 0
                               THEN Append(acc, [row |-> i,
                                                 label |-> indicator_str,
                                                 value |-> value])
                               ELSE acc)

\* sort_values("Количество", ascending=True) sorts with the default
\* kind="quicksort", which fixes no order among equal values: ties is the
\* order the sort leaves them in, as collected or reversed
TieOrders == {"collected", "reversed"}

RECURSIVE InsertSorted(_, _, _)
InsertSorted(sorted, x, ties) ==
    IF sorted = <<>> THEN <<x>>
    ELSE IF \/ sorted[Len(sorted)].value < x.value
            \/ sorted[Len(sorted)].value = x.value /\ ties = "collected"
         THEN Append(sorted, x)
         ELSE Append(InsertSorted(SubSeq(sorted, 1, Len(sorted) - 1), x, ties),
                     sorted[Len(sorted)])

RECURSIVE SortByValue(_, _)
SortByValue(xs, ties) ==
    IF xs = <<>> THEN <<>>
    ELSE InsertSorted(SortByValue(SubSeq(xs, 1, Len(xs) - 1), ties),
                      xs[Len(xs)], ties)

\* bug: .head(10) for .tail(10)
HeadTop(sorted) ==
    IF Len(sorted) > TopN THEN SubSeq(sorted, 1, TopN) ELSE sorted

\* lines 550-551: reasons_df.tail(10)
TailTop(sorted) ==
    IF Len(sorted) > TopN
    THEN SubSeq(sorted, Len(sorted) - TopN + 1, Len(sorted))
    ELSE sorted

\* what create_reasons_chart collects and what it displays (<<>>: no figure)
CollectedReasons(d, a) == ScanReasons(d.labels, a, StartIndex(d.labels), <<>>)
create_reasons_chart(d, a, ties) ==
    TailTop(SortByValue(CollectedReasons(d, a), ties))


-----------------------------------------------------------------------------
(* The sheets the model is run on *)

\* a sheet with the label column 'Показатель', one more column and the day
\* columns headers; ncols is df.shape[1]
Sheet(headers, labels, cells) ==
    [has_label |-> TRUE, ncols |-> 2 + Len(headers), headers |-> headers,
     labels |-> labels, cells |-> cells]

SeqsOf(S, n) == [1..n -> S]

\* Aggregation family: two indicators over up to MaxDays day columns.
\* Column i is headed by the Timestamp of day i, except that one column
\* j > 1 may be headed by the text 'YYYY-MM-DD' of day j - 1.
AggLabelBase == <<"v","z","p">>
AggLabel(r) == SubSeq(AggLabelBase, 1, r + 1)
AggLabels == <<AggLabel(1), AggLabel(2)>>
AggCells(r) == IF r = 1 THEN {NumCell(1), NumCell(2), TxtCell}
               ELSE {NumCell(1), NanCell}

PlainHeaders(n) == [i \in 1..n |-> TsHeader(i)]
HeaderChoices(n) ==
    {PlainHeaders(n)} \cup
    { [i \in 1..n |-> IF i = j THEN IsoHeader(j - 1) ELSE TsHeader(i)] :
        j \in 2..n }

AggSheets ==
    UNION { { Sheet(h, AggLabels, <<c1, c2>>) :
                h \in HeaderChoices(n),
                c1 \in SeqsOf(AggCells(1), n), c2 \in SeqsOf(AggCells(2), n) } :
            n \in 1..MaxDays }

\* Label-lookup family: one day column, up to MaxFindRows indicators with
\* labels from FindLabels; row r holds 0 or r.
FindLabels ==
    { <<"a","v">>, <<"A","V","T">>, <<"a","t","v">>, <<"a",".","v">>, NaN }

FindSheets ==
    UNION { { Sheet(PlainHeaders(1), l, [r \in 1..n |-> <<NumCell(v[r])>>]) :
                l \in SeqsOf(FindLabels, n),
                v \in { w \in SeqsOf(0..n, n) : \A r \in 1..n : w[r] \in {0, r} } } :
            n \in 0..MaxFindRows }

\* Averaging family: the script row over up to MaxDays day columns, alone or
\* below another indicator.
SkrLabel == <<"s","k","r">>
AvgCells == {NumCell(0), NumCell(1), NumCell(3), NumCell(101), PctCell(20),
             BlankCell}
AvgExamples ==
    { <<NumCell(85), NumCell(90), NumCell(95)>>,
      <<NumCell(850), NumCell(900)>>,
      <<PctCell(10), BlankCell, PctCell(20)>>,
      <<NanCell, TxtCell>> }

AvgSheets ==
    UNION { { Sheet(PlainHeaders(n), <<SkrLabel>>, <<c>>) :
                c \in SeqsOf(AvgCells, n) } : n \in 1..MaxDays }
    \cup { Sheet(PlainHeaders(Len(c)), <<SkrLabel>>, <<c>>) : c \in AvgExamples }
    \cup { Sheet(PlainHeaders(Len(c)), <<AggLabel(1), SkrLabel>>,
                 <<[k \in 1..Len(c) |-> NumCell(1)], c>>) : c \in AvgExamples }
    \cup { Sheet(<<TsHeader(1), IsoHeader(1)>>, <<SkrLabel>>, <<c>>) :
               c \in SeqsOf({NumCell(1), NumCell(101), PctCell(20), BlankCell}, 2) }

\* Rejection families: one day column.
ReasonLabel(i) == <<LowerLetters[i], LowerLetters[i + 1]>>

\* (a) the header "ОТКАЗЫ" and MaxReasons reasons worth 1 or 2
TopSheets ==
    { Sheet(PlainHeaders(1),
            <<OTKAZY>> \o [i \in 1..MaxReasons |-> ReasonLabel(i)],
            <<<<NumCell(0)>>>> \o [i \in 1..MaxReasons |-> <<NumCell(v[i])>>]) :
        v \in SeqsOf({1, 2}, MaxReasons) }

\* (b) short sheets over a catalogue of labels; row r holds r, the last 0 or r
Catalogue ==
    { OTKAZY,                                     \* "ОТКАЗЫ"
      <<"O","t","k","a","z","y">>,                \* "Отказы"
      <<"d","o","r","o","g","o">>,                \* "дорого"
      <<" ">>,                                    \* a blank label
      NaN,
      <<"I","T","O","G","O">>,                    \* "ИТОГО": the next section
      <<"N","E","T"," ","A","V","T","O">>,        \* "НЕТ АВТО": allow-listed
      <<"T","O">> }                               \* "ТО": too short to stop

SectionSheets ==
    UNION { { Sheet(PlainHeaders(1), l,
                    [r \in 1..n |-> <<NumCell(IF r = n THEN last ELSE r)>>]) :
                l \in SeqsOf(Catalogue, n), last \in {0, n} } :
            n \in 1..MaxScan }

\* (c) no header in the first FallbackStart rows, then up to MaxTail rows
FillerLabel == <<"v","z">>
FallbackSheets ==
    UNION { { Sheet(PlainHeaders(1),
                    [r \in 1..FallbackStart |-> FillerLabel] \o l,
                    [r \in 1..(FallbackStart + n) |-> <<NumCell(r)>>]) :
                l \in SeqsOf(Catalogue, n) } :
            n \in 0..MaxTail }

\* (d) the rows of the key metrics over two day columns
Incoming ==                                       \* "Входящие звонки - ВЗ"
    <<"V","h","o","d","ya","sch","i","e"," ","z","v","o","n","k","i"," ","-",
      " ","V","Z">>
Accepted == <<"P","r","i","n","ya","t","y","e"," ","V","Z">>   \* "Принятые ВЗ"
Missed ==                                         \* "Непринятые ВЗ"
    <<"N","e","p","r","i","n","ya","t","y","e"," ","V","Z">>

MetricRows ==
    { <<Incoming, <<NumCell(10), NumCell(20)>>>>,
      <<Incoming, <<NumCell(0), NumCell(3)>>>>,
      <<Accepted, <<NumCell(8), NumCell(15)>>>>,
      <<Accepted, <<NumCell(0), NumCell(1)>>>>,
      <<Missed, <<NumCell(2), NumCell(5)>>>> }

MetricSheets ==
    { Sheet(h, [r \in 1..Len(rows) |-> rows[r][1]],
               [r \in 1..Len(rows) |-> rows[r][2]]) :
        h \in HeaderChoices(2),
        rows \in { q \in SeqsOf(MetricRows, 2) \cup SeqsOf(MetricRows, 3) :
                     /\ \A i, j \in 1..Len(q) : i # j => q[i][1] # q[j][1]
                     /\ \E i \in 1..Len(q) : q[i][1] = Incoming
                     /\ \E i \in 1..Len(q) : q[i][1] = Accepted } }

\* (e) workbooks: up to two sheets named from a pool of names
SheetNamePool ==
    { Report(months[5]),                          \* "Отчет Май"
      Report(months[4]),                          \* "Отчет Апрель"
      Report(months[1]),                          \* "Отчет Январь"
      Report(months[12]),                         \* "Отчет Декабрь"
      ReportPrefix,                               \* "Отчет"
      months[5],                                  \* "Май"
      Report(months[5] \o <<" ">> \o months[5]),  \* "Отчет Май Май"
      Report(StrLower(months[5])),                \* "Отчет май"
      Report(months[3] \o <<"-">> \o months[5]) } \* "Отчет Март-Май"

Books ==
    { b \in SeqsOf(SheetNamePool, 0) \cup SeqsOf(SheetNamePool, 1)
            \cup SeqsOf(SheetNamePool, 2) :
        \A i, j \in 1..Len(b) : i # j => b[i] # b[j] }

\* (f) the sheets of the workbook family: a sheet of one day, sheets that
\* fail the structure checks, and sheets of two days under several headers
OneDaySheet ==
    Sheet(PlainHeaders(1), <<Incoming, Accepted>>,
          <<<<NumCell(10)>>, <<NumCell(8)>>>>)

NarrowSheets ==
    { [has_label |-> l, ncols |-> n, headers |-> <<>>,
       labels |-> <<Incoming>>, cells |-> <<<<>>>>] :
        l \in BOOLEAN, n \in 1..2 }

BookHeaders ==
    { PlainHeaders(2),
      <<TsHeader(1), IsoHeader(1)>>,
      <<TsHeader(1), TxtHeader(2)>>,
      <<IntHeader(1), TsHeader(2)>>,
      <<IsoHeader(1), IsoHeader(2)>> }

BookLabels ==
    { <<Incoming, OTKAZY, <<"d","o","r","o","g","o">>>>,
      <<SkrLabel, Accepted, Incoming>>,
      <<NaN, NaN, NaN>> }

TwoDaySheets ==
    { Sheet(h, l, [r \in 1..3 |-> <<NumCell(r), NumCell(1)>>]) :
        h \in BookHeaders, l \in BookLabels }

BookSheets ==
    NarrowSheets
    \cup { [s EXCEPT !.has_label = FALSE] : s \in TwoDaySheets }
    \cup { Sheet(PlainHeaders(2), <<>>, <<>>) }
    \cup TwoDaySheets

-----------------------------------------------------------------------------
(* The render: main() from the parsed sheet on *)

\* the label fragments the helpers are called with
FindFragments ==
    { <<>>, <<"a","v">>, <<"t">>, <<"a",".","v">>, <<"a","\\",".","v">>,
      <<"(">>, <<"(","a",")","v">>, <<"d","o","r","o","g","o">> }
LookupFragments == { <<"v","z">>, <<"p">>, <<"(">> }
MetricFragments == { Incoming, Accepted, Missed }
ScriptFragments == { SkrLabel, <<"(">> }

NoCall == [fn |-> "none", arg |-> <<>>, value |-> 0]

Min(a, b) == IF a <= b THEN a ELSE b

\* the render at the slider, the sheet of DefaultBook parsed
InitWith(sheets) ==
    /\ xl = DefaultBook
    /\ sheet_names = QualifyingNames(xl)
    /\ selected_sheet = sheet_names[1]
    /\ prev_sheet = get_prev_sheet(selected_sheet)
    /\ df_prev = PrevLoaded(prev_sheet, sheet_names)
    /\ message = "none"
    /\ df \in sheets
    /\ start_day = 1
    /\ end_day = Min(5, Len(df.headers))          \* the slider's default
    /\ selected_cols = <<>>
    /\ data_period = EmptyFrame
    /\ data_period_aggregated = EmptyAggregated
    /\ pc = "loaded"
    /\ ret = NoCall

\* lines 636-654: the slider and the columns of the selected period
SelectDays(s, e) ==
    /\ pc = "loaded"
    /\ start_day' = s
    /\ end_day' = e
    /\ selected_cols' = SelectedCols(df.headers, s, e)
    /\ pc' = IF selected_cols' = <<>> THEN "error" ELSE "selected"
    /\ message' = IF selected_cols' = <<>> THEN "dates_not_matched" ELSE "none"
    /\ UNCHANGED <<book, df, data_period, data_period_aggregated, ret>>

\* lines 657-661
ProcessData ==
    /\ pc = "selected"
    /\ LET out == process_data(df, selected_cols)
       IN  /\ data_period' = out[1]
           /\ data_period_aggregated' = out[2]
           /\ pc' = IF AggregatedEmpty(out[2]) THEN "error" ELSE "aggregated"
           /\ message' = IF AggregatedEmpty(out[2]) THEN "not_processed"
                          ELSE "none"
    /\ UNCHANGED <<book, df, start_day, end_day, selected_cols, ret>>

Call(fn, arg, value) ==
    /\ pc = "aggregated"
    /\ ret.fn = "none"
    /\ ret' = [fn |-> fn, arg |-> arg, value |-> value]
    /\ UNCHANGED <<book, message, df, start_day, end_day, selected_cols,
                   data_period, data_period_aggregated, pc>>

CallFindMetricValue(frag) ==
    Call("find_metric_value", frag,
         find_metric_value(data_period_aggregated, frag))

CallGetDailyValues(frag) ==
    Call("get_daily_values", frag,
         get_daily_values(data_period, frag, selected_cols))

CallFindMetricAverageDaily(frag) ==
    Call("find_metric_average_daily", frag,
         find_metric_average_daily(data_period, frag, selected_cols))

CallCreateReasonsChart ==
    \E ties \in TieOrders :
        Call("create_reasons_chart", <<>>,
             create_reasons_chart(df, data_period_aggregated, ties))

\* line 692: round(total_accepted / total_incoming * 100, 1) in tenths of a
\* percent; where the quotient lies halfway between two tenths the binary
\* value of the float decides, so both neighbours are outcomes
Round1Outcomes(total_accepted, total_incoming) ==
    LET scaled == 1000 * total_accepted
        below == scaled \div total_incoming
        rest == scaled % total_incoming
    IN  IF 2 * rest < total_incoming THEN {below}
        ELSE IF 2 * rest > total_incoming THEN {below + 1}
        ELSE {below, below + 1}

\* lines 688-692: the three lookups and the acceptance rate (in tenths)
KeyMetrics(a) ==
    LET total_incoming == find_metric_value(a, Incoming)
        total_accepted == find_metric_value(a, Accepted)
        total_missed == find_metric_value(a, Missed)
    IN  { [total_incoming |-> total_incoming,
           total_accepted |-> total_accepted,
           total_missed |-> total_missed,
           acceptance_rate |-> rate] :
          rate \in IF total_incoming > 0
                   THEN Round1Outcomes(total_accepted, total_incoming) ELSE {0} }

\* lines 685-703: the cards of the key metrics
ShowKeyMetrics ==
    \E metrics \in KeyMetrics(data_period_aggregated) :
        Call("key_metrics", <<>>, metrics)

\* lines 187-232: create_dynamics_chart raises inside its try when a daily
\* series has not the length of range(start_day, end_day + 1)
Forwarded ==                                 \* "Переадресованные успешно ВЗ"
    <<"P","e","r","e","a","d","r","e","s","o","v","a","n","n","y","e"," ",
      "u","s","p","e","sh","n","o"," ","V","Z">>

DynamicsRaises ==
    \E label \in {Incoming, Accepted, Missed, Forwarded} :
        Len(get_daily_values(data_period, label, selected_cols))
            # end_day - start_day + 1

\* lines 386-396: find_metric_average_daily raises inside the try
ScriptsRaises ==
    find_metric_average_daily(data_period, SkrLabel, selected_cols).raised

\* lines 460-462: .str.contains on a label column without strings raises
SalesFunnelRaises == StrAccessorFails(data_period_aggregated.labels)

\* lines 541-542: no reason collected, return None
ReasonsNone == CollectedReasons(df, data_period_aggregated) = <<>>

Charts == {"dynamics", "funnel", "staff", "internet", "scripts",
           "sales_funnel", "reasons"}

\* the builders that raise, and those that return None on their own, for
\* the reasons the model follows
ModelledRaises ==
    (IF DynamicsRaises THEN {"dynamics"} ELSE {})
    \cup (IF ScriptsRaises THEN {"scripts"} ELSE {})
    \cup (IF SalesFunnelRaises THEN {"sales_funnel"} ELSE {})
ModelledNone == IF ReasonsNone THEN {"reasons"} ELSE {}

\* what happens inside a builder: it raises, it returns None on its own
\* (nothing to draw), or it draws a figure
BuilderOutcome(chart, failing, nothing) ==
    IF chart \in failing THEN "raised"
    ELSE IF chart \in nothing THEN "none"
    ELSE "figure"

\* what a builder returns: each `except Exception` returns None, and
\* create_staff_charts returns a pair (None, None)
BuilderReturn(chart, outcome) ==
    IF chart = "staff"
    THEN (IF outcome = "figure" THEN <<"figure", "figure">>
          ELSE <<"None", "None">>)
    ELSE (IF outcome = "figure" THEN <<"figure">> ELSE <<"None">>)

GraphKeys == (Charts \ {"staff"}) \cup {"staff", "staff_pie"}

\* lines 732-758: the dictionary graphs; "absent" is a key never assigned
Graphs(enabled, returned) ==
    [key \in GraphKeys |->
        CASE key = "staff" ->
                 IF "staff" \in enabled /\ returned["staff"][1] = "figure"
                 THEN "figure" ELSE "absent"
          [] key = "staff_pie" ->
                 IF "staff" \in enabled /\ returned["staff"][2] = "figure"
                 THEN "figure" ELSE "absent"
          [] OTHER ->
                 IF key \in enabled THEN returned[key][1] ELSE "absent"]

\* bug: a row of two charts is drawn only when both are there
DisplayRowOfBoth(graphs, left, right) ==
    IF graphs[left] = "figure" /\ graphs[right] = "figure"
    THEN {key \in {left, right} : graphs[key] = "figure"}
    ELSE {}

\* lines 761-768 and alike: if graphs.get(left) or graphs.get(right), each
\* of the two that is there is drawn in its column
DisplayRow(graphs, left, right) ==
    IF graphs[left] = "figure" \/ graphs[right] = "figure"
    THEN {key \in {left, right} : graphs[key] = "figure"}
    ELSE {}

\* lines 760-795
Displayed(graphs) ==
    DisplayRow(graphs, "dynamics", "funnel")
    \cup DisplayRow(graphs, "staff", "staff_pie")
    \cup DisplayRow(graphs, "internet", "scripts")
    \cup DisplayRow(graphs, "sales_funnel", "reasons")

EnabledChoices == {Charts} \cup {Charts \ {chart} : chart \in Charts}

\* what the model does not follow (plotly, the rows of the other charts):
\* at most one more builder raises or finds nothing to draw
Deviations ==
    {<<{}, {}>>} \cup {<<{chart}, {}>> : chart \in Charts}
    \cup {<<{}, {chart}>> : chart \in Charts}

\* lines 731-799: the chart section for the charts ticked in the sidebar;
\* banner is the st.error of line 799, shown when an exception leaves a builder
\* or the unpacking of line 741
RenderCharts ==
    /\ pc = "aggregated" /\ ret.fn = "none"
    /\ \E raises \in {ModelledRaises}, none \in {ModelledNone} :
       \E enabled \in EnabledChoices, deviation \in Deviations :
           LET failing == raises \cup deviation[1]
               nothing == none \cup deviation[2]
               outcome == [chart \in Charts |->
                              BuilderOutcome(chart, failing, nothing)]
               returned == [chart \in Charts |->
                               BuilderReturn(chart, outcome[chart])]
               banner == "staff" \in enabled /\ Len(returned["staff"]) # 2
               graphs == Graphs(enabled, returned)
           IN  Call("charts", <<>>,
                    [enabled |-> enabled, outcome |-> outcome,
                     graphs |-> graphs,
                     displayed |-> IF banner THEN {} ELSE Displayed(graphs),
                     banner |-> banner])

\* lines 593-598: no sheet of the workbook starts with "Отчет"
NoReportSheets ==
    /\ pc = "start"
    /\ QualifyingNames(xl) = <<>>
    /\ sheet_names' = <<>>
    /\ pc' = "error"
    /\ message' = "no_report_sheets"
    /\ UNCHANGED <<xl, selected_sheet, prev_sheet, df_prev, df, start_day,
                   end_day, selected_cols, data_period, data_period_aggregated,
                   ret>>

\* lines 594-633: a sheet is chosen and parsed, and its shape is checked
SelectSheet(name) ==
    /\ pc = "start"
    /\ \E k \in 1..Len(QualifyingNames(xl)) : QualifyingNames(xl)[k] = name
    /\ sheet_names' = QualifyingNames(xl)
    /\ selected_sheet' = name
    /\ prev_sheet' = get_prev_sheet(name)
    /\ df_prev' = PrevLoaded(prev_sheet', sheet_names')
    /\ IF df.ncols < 3
       THEN pc' = "error" /\ message' = "too_few_columns"
       ELSE IF Len(df.headers) = 0
       THEN pc' = "error" /\ message' = "no_day_columns"
       ELSE pc' = "loaded" /\ message' = "none"
    /\ UNCHANGED <<xl, df, start_day, end_day, selected_cols, data_period,
                   data_period_aggregated, ret>>

\* the script runs again from its first line on the same workbook
Reload ==
    /\ pc \in {"aggregated", "error"}
    /\ pc' = "start"
    /\ sheet_names' = <<>>
    /\ selected_sheet' = None
    /\ prev_sheet' = None
    /\ df_prev' = None
    /\ message' = "none"
    /\ start_day' = 1
    /\ end_day' = Min(5, Len(df.headers))
    /\ selected_cols' = <<>>
    /\ data_period' = EmptyFrame
    /\ data_period_aggregated' = EmptyAggregated
    /\ ret' = NoCall
    /\ UNCHANGED <<xl, df>>

\* a control changes and the script runs again on the same sheet, which
\* passes the checks of lines 596-633 as before
Rerun ==
    /\ pc \in {"aggregated", "error"}
    /\ sheet_names # <<>> /\ df.ncols >= 3 /\ Len(df.headers) > 0
    /\ pc' = "loaded"
    /\ message' = "none"
    /\ start_day' = 1
    /\ end_day' = Min(5, Len(df.headers))
    /\ selected_cols' = <<>>
    /\ data_period' = EmptyFrame
    /\ data_period_aggregated' = EmptyAggregated
    /\ ret' = NoCall
    /\ UNCHANGED <<book, df>>

\* one step of the render, the helpers called with fragments of fragments
NextWith(fragments) ==
    \/ \E s \in 1..Len(df.headers) : \E e \in s..Len(df.headers) : SelectDays(s, e)
    \/ ProcessData
    \/ \E frag \in fragments : CallFindMetricValue(frag)
    \/ \E frag \in fragments : CallGetDailyValues(frag)
    \/ \E frag \in fragments : CallFindMetricAverageDaily(frag)
    \/ CallCreateReasonsChart
    \/ ShowKeyMetrics
    \/ Rerun

Init == InitWith(AggSheets)
Next == NextWith(LookupFragments)
Spec == Init /\ [][Next]_vars

InitFind == InitWith(FindSheets)
NextFind == NextWith(FindFragments)
SpecFind == InitFind /\ [][NextFind]_vars

InitAvg == InitWith(AvgSheets)
NextAvg == NextWith(ScriptFragments)
SpecAvg == InitAvg /\ [][NextAvg]_vars

InitReasons == InitWith(TopSheets \cup SectionSheets \cup FallbackSheets)
NextReasons == NextWith(LookupFragments)
SpecReasons == InitReasons /\ [][NextReasons]_vars

\* the render from the uploaded workbook: a workbook of the family with the
\* one-day sheet, or the one-sheet workbook with a sheet of the family
InitBook ==
    /\ \/ xl \in Books /\ df = OneDaySheet
       \/ xl = DefaultBook /\ df \in BookSheets
    /\ sheet_names = <<>>
    /\ selected_sheet = None
    /\ prev_sheet = None
    /\ df_prev = None
    /\ message = "none"
    /\ start_day = 1
    /\ end_day = Min(5, Len(df.headers))
    /\ selected_cols = <<>>
    /\ data_period = EmptyFrame
    /\ data_period_aggregated = EmptyAggregated
    /\ pc = "start"
    /\ ret = NoCall
NextBook ==
    \/ NoReportSheets
    \/ \E name \in SheetNamePool : SelectSheet(name)
    \/ RenderCharts
    \/ Reload
    \/ NextWith(MetricFragments)
SpecBook == InitBook /\ [][NextBook]_vars

InitMetrics == InitWith(MetricSheets)
NextMetrics == NextWith(MetricFragments)
SpecMetrics == InitMetrics /\ [][NextMetrics]_vars

-----------------------------------------------------------------------------
(* The vocabulary of the claims *)


-----------------------------------------------------------------------------
(* Vocabulary of the claims, stated on the sheet and not on the helpers *)

\* the label holds the fragment as a substring, letter case ignored
ContainsFragment(label, frag) ==
    label # NaN /\ StrContains(StrLower(label), StrLower(frag))

\* the fragment has no character that a regular expression reads specially
IsPlainFragment(frag) ==
    \A i \in 1..Len(frag) : frag[i] \notin {".", "(", ")", "\\"}

\* the first position of 1..n that satisfies P, or 0
FirstWhere(n, P(_)) ==
    IF \E i \in 1..n : P(i)
    THEN CHOOSE i \in 1..n : P(i) /\ \A j \in 1..(i - 1) : ~P(j)
    ELSE 0

FindCalled == ret.fn = "find_metric_value"

-----------------------------------------------------------------------------
(* C1 *)

\* C1 as stated: when several rows' labels contain the fragment (letter case
\* ignored), find_metric_value returns the period sum of the first such row.
C1_FirstContainingRow ==
    FindCalled =>
        LET a == data_period_aggregated
            Holds(i) == ContainsFragment(a.labels[i], ret.arg)
        IN  Cardinality({i \in 1..Len(a.labels) : Holds(i)}) >= 2
                => ret.value = a.sums[FirstWhere(Len(a.labels), Holds)]

\* C1 amended: the fragment is read as a regular expression.  When it compiles
\* and re.search finds it (letter case ignored) in some label, the result is
\* the period sum of the first such row in table order; for a fragment without
\* special characters that row is the first whose label contains the fragment.
C1_FirstMatchingRow ==
    FindCalled =>
        LET a == data_period_aggregated
            re == ReCompile(ret.arg)
            Found(i) == a.labels[i] # NaN /\ ReSearch(re.atoms, a.labels[i])
            Holds(i) == ContainsFragment(a.labels[i], ret.arg)
        IN  /\ (re.ok /\ \E i \in 1..Len(a.labels) : Found(i))
                   => ret.value = a.sums[FirstWhere(Len(a.labels), Found)]
            /\ (IsPlainFragment(ret.arg) /\ \E i \in 1..Len(a.labels) : Holds(i))
                   => ret.value = a.sums[FirstWhere(Len(a.labels), Holds)]

\* C1 witness: two rows with different positive sums contain a plain fragment
\* and the call returned the sum of the first of them.
C1_Witness ==
    /\ FindCalled
    /\ IsPlainFragment(ret.arg) /\ ret.arg # <<>>
    /\ LET a == data_period_aggregated
       IN  \E i, j \in 1..Len(a.labels) :
              /\ i < j
              /\ ContainsFragment(a.labels[i], ret.arg)
              /\ ContainsFragment(a.labels[j], ret.arg)
              /\ \A k \in 1..(i - 1) : ~ContainsFragment(a.labels[k], ret.arg)
              /\ a.sums[i] > 0 /\ a.sums[j] > 0 /\ a.sums[i] # a.sums[j]
              /\ ret.value = a.sums[i]

-----------------------------------------------------------------------------
(* C2 *)

\* C2 as stated: find_metric_value returns 0 whenever the table is empty,
\* lacks the label or period-sum column, or no row's label contains the
\* fragment.
C2_ZeroWhenNotContained ==
    FindCalled =>
        LET a == data_period_aggregated
        IN  (\/ AggregatedEmpty(a) \/ ~a.has_label \/ ~a.has_sum
             \/ \A i \in 1..Len(a.labels) : ~ContainsFragment(a.labels[i], ret.arg))
                => ret.value = 0

\* C2 amended: find_metric_value returns 0, without raising, whenever the table
\* is empty, lacks the label or period-sum column, the fragment does not
\* compile as a regular expression, or re.search finds it in no label; a
\* fragment without special characters that no label contains is such a case.
C2_ZeroWhenNoMatch ==
    /\ \A frag \in FindFragments :
          /\ find_metric_value(EmptyAggregated, frag) = 0
          /\ find_metric_value(
                 [data_period_aggregated EXCEPT !.has_sum = FALSE], frag) = 0
          /\ find_metric_value(
                 [data_period_aggregated EXCEPT !.has_label = FALSE], frag) = 0
    /\ FindCalled =>
          LET a == data_period_aggregated
              re == ReCompile(ret.arg)
          IN  /\ (\/ ~re.ok
                  \/ \A i \in 1..Len(a.labels) :
                        a.labels[i] = NaN \/ ~ReSearch(re.atoms, a.labels[i]))
                     => ret.value = 0
              /\ (/\ IsPlainFragment(ret.arg)
                  /\ \A i \in 1..Len(a.labels) :
                        ~ContainsFragment(a.labels[i], ret.arg))
                     => ret.value = 0

\* C2 witness: a table whose rows all have positive sums, one of them without
\* a label, a plain fragment that no label contains, and the result 0.
C2_Witness ==
    /\ FindCalled
    /\ IsPlainFragment(ret.arg)
    /\ LET a == data_period_aggregated
       IN  /\ Len(a.labels) >= 2
           /\ \E i \in 1..Len(a.labels) : a.labels[i] = NaN
           /\ \E i \in 1..Len(a.labels) : a.labels[i] # NaN
           /\ ret.arg # <<>>
           /\ \A i \in 1..Len(a.labels) :
                 a.sums[i] > 0 /\ ~ContainsFragment(a.labels[i], ret.arg)
    /\ ret.value = 0

-----------------------------------------------------------------------------
(* C3, C4, C8: the aggregation of the selected period *)

\* the cell of row r in the sheet's column named name
CellOf(d, r, name) ==
    d.cells[r][CHOOSE i \in 1..Len(d.headers) : d.headers[i] = name]

\* a cell as the claims count it: its number, 0 when it holds none
CellNumber(cell) == IF cell[1] = "num" THEN cell[2] ELSE 0

RECURSIVE SumOverColumns(_, _, _, _)
SumOverColumns(d, r, cols, k) ==
    IF k > Len(cols) THEN 0
    ELSE CellNumber(CellOf(d, r, cols[k])) + SumOverColumns(d, r, cols, k + 1)

NoDuplicates(cols) ==
    \A i, j \in 1..Len(cols) : i # j => cols[i] # cols[j]

AggregatedAsClaimed ==
    LET a == data_period_aggregated
    IN  /\ a.has_label /\ a.has_sum
        /\ Len(a.labels) = Len(df.labels)
        /\ Len(a.sums) = Len(df.labels)
        /\ \A r \in 1..Len(df.labels) :
              /\ a.labels[r] = df.labels[r]
              /\ a.sums[r] = SumOverColumns(df, r, selected_cols, 1)

\* C3 as stated: the aggregated table has one row per row of the sheet, in
\* the same order and with the same label, and its period sum is the sum of
\* that row's cells over the selected day columns, a cell without a number
\* counted as 0.
C3_OneRowPerIndicator == pc = "aggregated" => AggregatedAsClaimed

\* C3 where it holds: the same, when no column is selected twice.
C3_WithDistinctColumns ==
    (pc = "aggregated" /\ NoDuplicates(selected_cols)) => AggregatedAsClaimed

\* the period sums main() obtains for the day range s..e (0 for an empty range)
PeriodSums(d, s, e) ==
    IF s > e THEN [r \in 1..Len(d.labels) |-> 0]
    ELSE process_data(d, SelectedCols(d.headers, s, e))[2].sums

AllNumeric(d, r) == \A c \in 1..Len(d.headers) : d.cells[r][c][1] = "num"

\* C4 as stated: for the selected range s..e and every row whose cells are
\* all numbers, the period sum over 1..e is the sum over 1..s-1 plus the sum
\* over s..e.
C4_Linear ==
    pc = "aggregated" =>
        \A r \in 1..Len(df.labels) :
            AllNumeric(df, r) =>
                PeriodSums(df, 1, end_day)[r] =
                    PeriodSums(df, 1, start_day - 1)[r]
                    + data_period_aggregated.sums[r]

\* C4 where it holds: the same, on a sheet whose headers normalize to
\* different keys.
C4_WithDistinctKeys ==
    (/\ pc = "aggregated"
     /\ \A i, j \in 1..Len(df.headers) :
           i # j => normalize_date(df.headers[i]) # normalize_date(df.headers[j]))
        => \A r \in 1..Len(df.labels) :
               AllNumeric(df, r) =>
                   PeriodSums(df, 1, end_day)[r] =
                       PeriodSums(df, 1, start_day - 1)[r]
                       + data_period_aggregated.sums[r]

DailyAsClaimed ==
    LET re == ReCompile(ret.arg)
        Found(i) == df.labels[i] # NaN /\ ReSearch(re.atoms, df.labels[i])
        r == IF re.ok THEN FirstWhere(Len(df.labels), Found) ELSE 0
    IN  /\ Len(ret.value) = Len(selected_cols)
        /\ \A k \in 1..Len(selected_cols) :
              k <= Len(ret.value) =>
                  ret.value[k] = IF r = 0 THEN 0
                                 ELSE CellNumber(CellOf(df, r, selected_cols[k]))

C8_WithDistinctColumns ==
    (ret.fn = "get_daily_values" /\ NoDuplicates(selected_cols)) => DailyAsClaimed

-----------------------------------------------------------------------------
(* C5, C6, C7: the average of the script row *)

AverageCalled == ret.fn = "find_metric_average_daily"

\* the first row whose label the fragment of the call matches, or 0
MatchedRow ==
    LET re == ReCompile(ret.arg)
        Found(i) == df.labels[i] # NaN /\ ReSearch(re.atoms, df.labels[i])
    IN  IF re.ok THEN FirstWhere(Len(df.labels), Found) ELSE 0

\* the cells of that row under the columns passed to the call
MatchedCells == [k \in 1..Len(selected_cols) |-> CellOf(df, MatchedRow, selected_cols[k])]

HoldsNumber(cell) == cell[1] \in {"num", "pct"}

RECURSIVE NumberTotal(_)
NumberTotal(cells) ==
    IF cells = <<>> THEN 0
    ELSE (IF HoldsNumber(Head(cells)) THEN Head(cells)[2] ELSE 0)
         + NumberTotal(Tail(cells))

NumberCount(cells) == Cardinality({k \in 1..Len(cells) : HoldsNumber(cells[k])})
NumberMax(cells) ==
    CHOOSE m \in {cells[k][2] : k \in {j \in 1..Len(cells) : HoldsNumber(cells[j])}} :
        \A k \in 1..Len(cells) : HoldsNumber(cells[k]) => cells[k][2] <= m

\* C5 as stated: cells that hold no number are ignored and "NN%" strings are
\* normalized to a fraction: a matching row of "NN%" strings and empty cells
\* averages to mean(NN)/100, so ["10%", "", "20%"] gives 0.15.
C5_PercentStrings ==
    (/\ AverageCalled /\ ~ret.value.raised /\ MatchedRow # 0
     /\ \A k \in 1..Len(MatchedCells) : MatchedCells[k][1] \in {"pct", "blank"}
     /\ NumberCount(MatchedCells) > 0)
        => RatEq(ret.value.value,
                 Rat(NumberTotal(MatchedCells), NumberCount(MatchedCells) * 100))

\* C6 as stated: on a matching row of non-negative numbers, "NN%" strings and
\* empty cells the result lies in the closed interval [0,1].
C6_UnitInterval ==
    (/\ AverageCalled /\ ~ret.value.raised /\ MatchedRow # 0
     /\ \A k \in 1..Len(MatchedCells) :
           /\ MatchedCells[k][1] \in {"num", "pct", "blank", "nan"}
           /\ MatchedCells[k][2] >= 0)
        => /\ RatLeq(Rat(0, 1), ret.value.value)
           /\ RatLeq(ret.value.value, Rat(1, 1))

-----------------------------------------------------------------------------
(* C9, C10: the chart of rejection reasons *)

ReasonsCalled == ret.fn = "create_reasons_chart"

\* the reasons with a positive period sum that the scan collected
Collected == CollectedReasons(df, data_period_aggregated)
RowsOf(reasons) == {reasons[k].row : k \in 1..Len(reasons)}

\* C9: create_reasons_chart displays at most 10 reasons, each of them a
\* collected one, in ascending order of value; when more than 10 are
\* collected exactly 10 are kept and no dropped reason has a value above
\* that of a kept one; when at most 10 are collected all are displayed.
C9_TopTenAscending ==
    ReasonsCalled =>
        LET collected == Collected
            displayed == ret.value
            rows == RowsOf(displayed)
        IN  /\ Len(displayed) <= 10
            /\ \A k \in 1..(Len(displayed) - 1) :
                  displayed[k].value <= displayed[k + 1].value
            /\ \A k \in 1..Len(displayed) :
                  \E c \in 1..Len(collected) : collected[c] = displayed[k]
            /\ Cardinality(rows) = Len(displayed)
            /\ Len(collected) > 10 =>
                  /\ Len(displayed) = 10
                  /\ \A c \in 1..Len(collected) :
                        collected[c].row \notin rows =>
                            \A k \in 1..10 :
                                collected[c].value <= displayed[k].value
            /\ Len(collected) <= 10 => Len(displayed) = Len(collected)

\* C9 witness: eleven reasons were collected, ten are displayed in two
\* different values, and the dropped one has the smaller value.
C9_Witness ==
    /\ ReasonsCalled
    /\ Len(ret.value) = 10
    /\ ret.value[1].value < ret.value[10].value
    /\ LET collected == Collected
       IN  /\ Len(collected) = 11
           /\ \E c \in 1..11 : /\ collected[c].row \notin RowsOf(ret.value)
                               /\ collected[c].value < ret.value[10].value

\* the readings of "the text contains": as written, and ignoring case
TextContains(label, part) == label # NaN /\ StrContains(label, part)
TextContainsAnyCase(label, part) ==
    label # NaN /\ StrContains(StrUpper(label), StrUpper(part))

HeaderAsWritten(i) == TextContains(df.labels[i], OTKAZY)
HeaderAnyCase(i) == TextContainsAnyCase(df.labels[i], OTKAZY)

\* the row index (from 0) after the header at position h, 37 without header
ScanStart(h) == IF h = 0 THEN 37 ELSE h

EmptyLabel(label) ==
    label = NaN \/ \A k \in 1..Len(label) : label[k] = " "

\* uppercase, longer than 3 characters, none of the allow-list keywords
StopLabel(label) ==
    /\ ~EmptyLabel(label)
    /\ LET text == StrStrip(label)
       IN  /\ \A k \in 1..Len(text) : ~IsLowerChar(text[k])
           /\ \E k \in 1..Len(text) : IsUpperChar(text[k])
           /\ Len(text) > 3
           /\ \A keyword \in Keywords : ~TextContainsAnyCase(text, keyword)

\* the row index (from 0) of the first stopping row at or after start, the
\* number of rows when there is none
ScanStop(start) ==
    LET Stops(i) == i > start /\ StopLabel(df.labels[i])
        first == FirstWhere(Len(df.labels), Stops)
    IN  IF first = 0 THEN Len(df.labels) ELSE first - 1

\* the rows between start and the stopping row that carry a reason
ReasonRows(start) ==
    LET stop == ScanStop(start)
    IN
    { i \in start..(stop - 1) :
        /\ ~EmptyLabel(df.labels[i + 1])
        /\ find_metric_value(data_period_aggregated,
                             StrStrip(df.labels[i + 1])) > 0 }

ScanAsClaimed(start) ==
    LET rows == ReasonRows(start)
        stop == ScanStop(start)
        collected == Collected
        displayed == ret.value
    IN  /\ RowsOf(collected) = rows
        /\ RowsOf(displayed) \subseteq rows
        /\ Len(collected) <= 10 => RowsOf(displayed) = rows
        /\ \A k \in 1..Len(displayed) :
              /\ displayed[k].row >= start
              /\ displayed[k].row < stop
              /\ displayed[k].label = StrStrip(df.labels[displayed[k].row + 1])

\* C10 as stated: the scan starts at the row after the first row whose
\* column-0 text contains "ОТКАЗЫ" as written (row index 37 if there is
\* none), skips empty labels, stops at the first later row whose label is
\* uppercase, longer than 3 characters and without allow-list keyword, and
\* reports no row at or after that row.
C10_ScanAsWritten ==
    ReasonsCalled =>
        ScanAsClaimed(ScanStart(FirstWhere(Len(df.labels), HeaderAsWritten)))

\* C10 amended: the same with the header being the first row whose column-0
\* text contains "ОТКАЗЫ" when upper-cased, so that "Отказы" is a header too.
C10_ScanIgnoringCase ==
    ReasonsCalled =>
        ScanAsClaimed(ScanStart(FirstWhere(Len(df.labels), HeaderAnyCase)))

\* C10 witness: a header was found, a reason after it is displayed, an
\* allow-listed uppercase label was scanned past, and the scan stopped at a
\* row that has a positive period sum and is not displayed.
C10_Witness ==
    /\ ReasonsCalled
    /\ LET h == FirstWhere(Len(df.labels), HeaderAnyCase)
           stop == ScanStop(ScanStart(h))
       IN  /\ h # 0
           /\ stop < Len(df.labels)
           /\ find_metric_value(data_period_aggregated,
                                StrStrip(df.labels[stop + 1])) > 0
           /\ stop \notin RowsOf(ret.value)
           /\ \E i \in RowsOf(ret.value) :
                 /\ StrIsUpper(StrStrip(df.labels[i + 1]))
                 /\ Len(StrStrip(df.labels[i + 1])) > 3

\* C10 witness of the fallback: no header, the scan started at row index 37
C10_FallbackReached ==
    /\ ReasonsCalled
    /\ FirstWhere(Len(df.labels), HeaderAnyCase) = 0
    /\ 37 \in RowsOf(ret.value)

-----------------------------------------------------------------------------
(* C11: the acceptance rate *)

MetricsShown == ret.fn = "key_metrics"

\* the row labelled label, and its sum over the day columns start_day..end_day
RowLabelled(label) == FirstWhere(Len(df.labels), LAMBDA i : df.labels[i] = label)

RECURSIVE SumOverDays(_, _, _)
SumOverDays(r, s, e) ==
    IF s > e THEN 0 ELSE CellNumber(df.cells[r][s]) + SumOverDays(r, s + 1, e)

RateAsClaimed ==
    LET incoming_sum == SumOverDays(RowLabelled(Incoming), start_day, end_day)
        accepted_sum == SumOverDays(RowLabelled(Accepted), start_day, end_day)
    IN  IF incoming_sum > 0
        THEN ret.value.acceptance_rate \in Round1Outcomes(accepted_sum, incoming_sum)
        ELSE ret.value.acceptance_rate = 0

\* C11 as stated: on a table with a row "Входящие звонки - ВЗ" and a row
\* "Принятые ВЗ", in whatever order and with whatever other rows, the
\* displayed acceptance rate is round(accepted_sum / incoming_sum * 100, 1)
\* over the period sums of those two rows for the selected days, and 0 when
\* incoming_sum is not positive.
C11_AcceptanceRate ==
    (/\ MetricsShown
     /\ RowLabelled(Incoming) # 0 /\ RowLabelled(Accepted) # 0) => RateAsClaimed

\* C11 where it holds: the same, when no row "Непринятые ВЗ" stands above the
\* row "Принятые ВЗ" and the day headers normalize to different keys.
C11_WithoutEarlierMissed ==
    (/\ MetricsShown
     /\ RowLabelled(Incoming) # 0 /\ RowLabelled(Accepted) # 0
     /\ RowLabelled(Missed) \notin 1..RowLabelled(Accepted)
     /\ \A i, j \in 1..Len(df.headers) :
           i # j => normalize_date(df.headers[i]) # normalize_date(df.headers[j]))
        => RateAsClaimed

\* C11 on sheets whose day headers normalize to different keys: the claim as
\* stated, apart from the column selection of main().
C11_OnDistinctKeys ==
    (/\ MetricsShown
     /\ RowLabelled(Incoming) # 0 /\ RowLabelled(Accepted) # 0
     /\ \A i, j \in 1..Len(df.headers) :
           i # j => normalize_date(df.headers[i]) # normalize_date(df.headers[j]))
        => RateAsClaimed

\* the claim's example is one of the renders: rows [10,20] and [8,15] over
\* days 1..2 give 76.7
C11_ExampleReached ==
    /\ MetricsShown
    /\ start_day = 1 /\ end_day = 2
    /\ df.labels = <<Incoming, Accepted>>
    /\ df.cells = <<<<NumCell(10), NumCell(20)>>, <<NumCell(8), NumCell(15)>>>>
    /\ ret.value.acceptance_rate = 767

-----------------------------------------------------------------------------
(* C12: a failing chart builder *)

ChartsRendered == ret.fn = "charts"

\* the builder that makes the figure stored under key
BuilderOf(key) == IF key = "staff_pie" THEN "staff" ELSE key

\* C12: when a chart builder raises internally it returns None and its
\* chart is missing from the render; every chart that is enabled and whose
\* builder returned a figure is displayed, nothing else is, and no top-level
\* error banner is shown.
C12_FailureIsolated ==
    ChartsRendered =>
        LET shown == ret.value
        IN  /\ ~shown.banner
            /\ \A key \in GraphKeys :
                  (/\ BuilderOf(key) \in shown.enabled
                   /\ shown.outcome[BuilderOf(key)] = "raised")
                      => /\ shown.graphs[key] \in {"None", "absent"}
                         /\ key \notin shown.displayed
            /\ \A key \in GraphKeys :
                  key \in shown.displayed
                      <=> /\ BuilderOf(key) \in shown.enabled
                          /\ shown.outcome[BuilderOf(key)] = "figure"

\* C12 witness: every chart is enabled, create_dynamics_chart raised on the
\* daily series of a twice-selected column and it alone, and the seven other
\* figures are displayed.
C12_Witness ==
    /\ ChartsRendered
    /\ DynamicsRaises
    /\ ret.value.enabled = Charts
    /\ {chart \in Charts : ret.value.outcome[chart] = "raised"} = {"dynamics"}
    /\ ret.value.displayed = GraphKeys \ {"dynamics"}
    /\ ~ret.value.banner

-----------------------------------------------------------------------------
(* C13: structural failures *)

\* the structural failures of a render, read from the workbook, the sheet
\* and the slider
NoReportSheet == QualifyingNames(xl) = <<>>
TooFewColumns == df.ncols < 3
NoDayColumns == Len(df.headers) = 0
NoLabelColumn == ~df.has_label
NoMatchingDay == SelectedCols(df.headers, start_day, end_day) = <<>>

\* the render has passed line 654, where every structural failure but the
\* missing label column has ended it
PastSelection == pc \in {"selected", "aggregated"}

CardOrChart == ret.fn \in {"key_metrics", "charts"}

\* C13: a render of a workbook without report sheet, of a sheet with fewer
\* than 3 columns, without day columns, without the label column or without
\* a selected day that matches a column produces no metric card and no chart,
\* never gets past the check that detects the failure, and where it has ended
\* an error or warning message is shown.
C13_StructuralFailure ==
    /\ (NoReportSheet \/ TooFewColumns \/ NoDayColumns \/ NoLabelColumn
        \/ NoMatchingDay)
           => /\ ~CardOrChart
              /\ ret.fn = "none"
              /\ pc # "aggregated"
    /\ (NoReportSheet \/ TooFewColumns \/ NoDayColumns)
           => pc \in {"start", "error"}
    /\ NoMatchingDay => pc \in {"start", "loaded", "error"}
    /\ pc = "error" => message \in {"no_report_sheets", "too_few_columns",
                                    "no_day_columns", "dates_not_matched",
                                    "not_processed"}
    /\ (pc = "error" /\ NoReportSheet) => message = "no_report_sheets"
    /\ (pc = "error" /\ ~NoReportSheet /\ TooFewColumns)
           => message = "too_few_columns"
    /\ pc # "error" => message = "none"

\* C13 witness: a sheet of three or more columns without the label column
\* passed the checks of the shape and of the days, process_data returned
\* nothing, and the render ended with the error message of line 660.
C13_Witness ==
    /\ NoLabelColumn /\ ~TooFewColumns /\ ~NoReportSheet
    /\ selected_cols # <<>>
    /\ pc = "error"
    /\ message = "not_processed"
    /\ ret.fn = "none"

\* the other failures end the render too
C13_NoReportSheetReached ==
    NoReportSheet /\ Len(xl) > 0 /\ pc = "error" /\ message = "no_report_sheets"
C13_TooFewColumnsReached ==
    df.ncols = 2 /\ pc = "error" /\ message = "too_few_columns"

-----------------------------------------------------------------------------
(* C14: normalize_date *)

\* the text YYYY-MM-DD of a date, digit by digit
IsoText(year, month, day) ==
    <<Digits[(year \div 1000) + 1], Digits[((year \div 100) % 10) + 1],
      Digits[((year \div 10) % 10) + 1], Digits[(year % 10) + 1], "-",
      Digits[(month \div 10) + 1], Digits[(month % 10) + 1], "-",
      Digits[(day \div 10) + 1], Digits[(day % 10) + 1]>>

\* calendar dates, among them ends of months and a leap day
SampleDates ==
    { date \in {2024, 2025} \X {1, 2, 11, 12} \X {1, 9, 10, 28, 29, 30, 31} :
        date[3] <= DaysInMonth(date[1], date[2]) }

\* texts that are no dates
SampleTexts ==
    { TxtHeader(1)[2], <<>>, <<"2","0","2","5","-","0","2","-","3","0">>,
      TxtHeader(12)[2], Incoming }

\* C14: once the headers of a sheet have been normalized, a Timestamp and
\* the text YYYY-MM-DD of the same date have the same key, that text itself,
\* and a header that is neither a date nor a text that parses as a date has
\* its own string form as key; so have the sample dates, texts and numbers.
C14_CanonicalKey ==
    pc = "selected" =>
        /\ \A i \in 1..Len(df.headers) :
              LET col == df.headers[i]
              IN  /\ col[1] = "ts" =>
                        /\ normalize_date(col) = IsoText(col[2], col[3], col[4])
                        /\ normalize_date(<<"str", IsoText(col[2], col[3], col[4])>>)
                               = normalize_date(col)
                  /\ (col[1] = "str" /\ ~ToDatetime(col[2]).ok) =>
                        normalize_date(col) = col[2]
                  /\ col[1] = "int" => normalize_date(col) = IntStr(col[2])
        /\ \A date \in SampleDates :
              /\ normalize_date(<<"ts", date[1], date[2], date[3]>>)
                     = IsoText(date[1], date[2], date[3])
              /\ normalize_date(<<"str", IsoText(date[1], date[2], date[3])>>)
                     = IsoText(date[1], date[2], date[3])
        /\ \A text \in SampleTexts : normalize_date(<<"str", text>>) = text
        /\ \A n \in 0..31 : normalize_date(<<"int", n>>) = IntStr(n)

\* C14 witness: a sheet headed by a Timestamp and by the text of the same
\* date was normalized, the two keys are equal, and main() took both
\* selected days from one column.
C14_Witness ==
    /\ pc = "selected"
    /\ \E i, j \in 1..Len(df.headers) :
          /\ df.headers[i][1] = "ts" /\ df.headers[j][1] = "str"
          /\ normalize_date(df.headers[i]) = normalize_date(df.headers[j])
          /\ df.headers[j][2] = normalize_date(df.headers[i])
    /\ Len(selected_cols) = 2 /\ selected_cols[1] = selected_cols[2]

\* headers that are no dates are normalized too
C14_PlainTextReached ==
    /\ pc = "selected"
    /\ \E i, j \in 1..Len(df.headers) :
          /\ df.headers[i][1] = "str" /\ ~ToDatetime(df.headers[i][2]).ok
          /\ df.headers[j][1] = "ts"
    /\ Len(selected_cols) = 2

-----------------------------------------------------------------------------
(* C15: get_prev_sheet and the loading of the previous sheet *)

\* the month names a sheet name contains, by position in the year
MonthsIn(name) == { i \in 1..12 : StrContains(name, months[i]) }

\* the month before month i of the year, the twelfth before the first
Preceding(i) == months[((i + 10) % 12) + 1]

SheetChosen == selected_sheet # None

\* C15: for a chosen sheet whose name contains exactly one month name,
\* prev_sheet is that name with the month replaced by the preceding month,
\* the first month by the last; for a name without month name it is None;
\* and a previous sheet is loaded only when prev_sheet is one of the
\* qualifying sheet names, and is then the sheet of that name.
C15_PreviousSheet ==
    SheetChosen =>
        /\ \A i \in 1..12 :
              MonthsIn(selected_sheet) = {i} =>
                  prev_sheet = StrReplace(selected_sheet, months[i], Preceding(i))
        /\ MonthsIn(selected_sheet) = {} => prev_sheet = None
        /\ df_prev # None =>
              /\ prev_sheet # None
              /\ \E k \in 1..Len(xl) :
                    xl[k] = prev_sheet /\ StartsWith(xl[k], ReportPrefix)
              /\ df_prev = prev_sheet

\* C15 witness: the sheet of the first month was chosen in a workbook that
\* also holds the sheet of the last month, which was loaded as previous.
C15_Witness ==
    /\ SheetChosen
    /\ selected_sheet = Report(months[1])
    /\ prev_sheet = Report(months[12])
    /\ df_prev = Report(months[12])

\* a month in the middle of the year whose previous sheet is in the workbook
C15_MidYearLoaded ==
    /\ selected_sheet = Report(months[5])
    /\ prev_sheet = Report(months[4])
    /\ df_prev = prev_sheet

\* a month whose previous sheet is not in the workbook: nothing is loaded
C15_NotLoaded ==
    /\ selected_sheet = Report(months[5])
    /\ prev_sheet = Report(months[4])
    /\ df_prev = None

\* a qualifying name without month name
C15_NoMonth ==
    /\ SheetChosen
    /\ MonthsIn(selected_sheet) = {}
    /\ prev_sheet = None

-----------------------------------------------------------------------------
(* C16: the columns of the selected period *)

DaysSelected == pc \in {"selected", "aggregated"}

ColumnsAsClaimed ==
    /\ Len(selected_cols) = end_day - start_day + 1
    /\ \A k \in 1..Len(selected_cols) :
          k <= end_day - start_day + 1 =>
              selected_cols[k] = df.headers[start_day + k - 1]
    /\ \A k, l \in 1..Len(selected_cols) :
          k # l => selected_cols[k] # selected_cols[l]

\* C16 as stated: for every sheet and day range start_day..end_day, the
\* selected columns are the day columns at positions start_day..end_day, in
\* that order, each once, end_day - start_day + 1 of them.
C16_SelectedColumns == DaysSelected => ColumnsAsClaimed

\* C16 where it holds: the same, on a sheet whose headers normalize to
\* different keys.
C16_OnDistinctKeys ==
    (/\ DaysSelected
     /\ \A i, j \in 1..Len(df.headers) :
           i # j => normalize_date(df.headers[i]) # normalize_date(df.headers[j]))
        => ColumnsAsClaimed

\* a range of one day on a sheet with two headers of one key: the column
\* selected is not the column at that position
C16_OtherColumnSelected ==
    /\ DaysSelected
    /\ start_day = end_day
    /\ selected_cols # <<df.headers[start_day]>>

-----------------------------------------------------------------------------
(* C17: the value of a rejection reason *)

\* the period sum of the row at index i (from 0) of the sheet
OwnSum(i) == data_period_aggregated.sums[i + 1]

\* the rows the scan passes that carry a label
ScannedRows ==
    LET start == ScanStart(FirstWhere(Len(df.labels), HeaderAnyCase))
    IN  { i \in start..(ScanStop(start) - 1) : ~EmptyLabel(df.labels[i + 1]) }

\* an earlier row whose label contains, ignoring case, the label of row i
EarlierRowContains(i) ==
    \E j \in 1..i :
        /\ df.labels[j] # NaN
        /\ StrContains(StrLower(df.labels[j]),
                       StrLower(StrStrip(df.labels[i + 1])))

OwnSumReported(rows) ==
    LET collected == Collected
        displayed == ret.value
    IN  /\ \A k \in 1..Len(collected) :
              collected[k].row \in rows =>
                  collected[k].value = OwnSum(collected[k].row)
        /\ \A k \in 1..Len(displayed) :
              displayed[k].row \in rows =>
                  displayed[k].value = OwnSum(displayed[k].row)
        /\ \A i \in rows : OwnSum(i) > 0 => i \in RowsOf(collected)
        /\ \A i \in rows : i \in RowsOf(collected) => OwnSum(i) > 0

\* C17 as stated: every reason collected or displayed carries the period
\* sum of its own row, and a scanned row with a label is left out of the
\* collected reasons exactly when its own period sum is not positive.
C17_OwnRowSum == ReasonsCalled => OwnSumReported(ScannedRows)

\* C17 where it holds: the same for the scanned rows whose label is
\* contained, ignoring case, in no earlier row's label.
C17_WithoutEarlierMatch ==
    ReasonsCalled =>
        OwnSumReported({ i \in ScannedRows : ~EarlierRowContains(i) })

\* a reason whose label is part of an earlier row's label is displayed with
\* that row's period sum, which differs from its own
C17_EarlierRowReported ==
    /\ ReasonsCalled
    /\ \E k \in 1..Len(ret.value) :
          /\ EarlierRowContains(ret.value[k].row)
          /\ ret.value[k].value # OwnSum(ret.value[k].row)
          /\ \E j \in 1..ret.value[k].row :
                /\ ret.value[k].value = OwnSum(j - 1)
                /\ Len(df.labels[j]) > Len(ret.value[k].label)

====
